---- MODULE Spec2Model ----
(***************************************************************************)
(* The BeamNG -> MSAgent-AI bridge (src/beamng-bridge/bridge.py): Flask    *)
(* handlers that format a command and send it over the named pipe          *)
(* \\.\pipe\MSAgentAI with send_to_msagent, one connection per call.       *)
(*                                                                         *)
(* Text (a Python str) is a string; its one non-ASCII character, U+00E9,   *)
(* is written "~" (the text of the model has no tilde of its own).  Bytes  *)
(* (a Python bytes) are a sequence of byte names: an ASCII byte is named   *)
(* by its character, a byte >= 0x80 by "xHH".                              *)
(***************************************************************************)
EXTENDS Integers, Sequences, FiniteSets, TLC

\* Number of HTTP requests the server handles, each on its own thread.
NumReq == 2

\* bridge.py:43  win32file.ReadFile(handle, 1024)
ReadCap == 1024

Requests == 1 .. NumReq

----------------------------------------------------------------------------
(* Text and bytes *)

CharAt(s, i) == SubSeq(s, i, i)

Take(b, n) == SubSeq(b, 1, IF Len(b) < n THEN Len(b) ELSE n)

Drop(b, n) == SubSeq(b, n + 1, Len(b))

StartsWith(s, p) == Len(s) >= Len(p) /\ SubSeq(s, 1, Len(p)) = p

\* Python's  p in s  for strings.
Contains(s, p) ==
    \E i \in 1 .. (Len(s) - Len(p) + 1) : SubSeq(s, i, i + Len(p) - 1) = p

NL == "\n"

Whitespace == {" ", "\t", "\n", "\r", "\f"}

\* str.strip(): leading and trailing whitespace removed.
Strip(s) ==
    LET n  == Len(s)
        lo == IF \A i \in 1 .. n : CharAt(s, i) \in Whitespace THEN n + 1
              ELSE CHOOSE i \in 1 .. n :
                      /\ CharAt(s, i) \notin Whitespace
                      /\ \A j \in 1 .. i - 1 : CharAt(s, j) \in Whitespace
        hi == IF lo > n THEN n
              ELSE CHOOSE i \in lo .. n :
                      /\ \A j \in i + 1 .. n : CharAt(s, j) \in Whitespace
                      /\ CharAt(s, i) \notin Whitespace
    IN  SubSeq(s, lo, hi)

\* The one non-ASCII character of the model, U+00E9, and its UTF-8 bytes.
EAcute == "~"
LeadBytes == {"xC3"}
ContBytes == {"xA9"}
IsAscii(b) == Len(b) = 1

\* str.encode('utf-8'), one character.
EncodeChar(c) == IF c = EAcute THEN <<"xC3", "xA9">> ELSE <<c>>

\* The bytes characters lo .. hi of s encode to.
RECURSIVE EncodeRange(_, _, _)
EncodeRange(s, lo, hi) ==
    IF lo > hi THEN << >>
    ELSE IF lo = hi THEN EncodeChar(CharAt(s, lo))
         ELSE LET mid == (lo + hi) \div 2
              IN  EncodeRange(s, lo, mid) \o EncodeRange(s, mid + 1, hi)

\* str.encode('utf-8')
Encode(s) == EncodeRange(s, 1, Len(s))

\* bytes.decode('utf-8') succeeds: every byte is ASCII, or a lead byte
\* followed by its continuation byte, or that continuation byte.
Decodable(b) ==
    \A i \in 1 .. Len(b) :
        \/ IsAscii(b[i])
        \/ b[i] \in LeadBytes /\ i < Len(b) /\ b[i + 1] \in ContBytes
        \/ b[i] \in ContBytes /\ i > 1 /\ b[i - 1] \in LeadBytes

\* The text bytes lo .. hi of decodable bytes decode to.
RECURSIVE DecodeRange(_, _, _)
DecodeRange(b, lo, hi) ==
    IF lo > hi THEN ""
    ELSE IF lo = hi
         THEN IF IsAscii(b[lo]) THEN b[lo]
              ELSE IF b[lo] \in LeadBytes THEN EAcute ELSE ""
         ELSE LET mid == (lo + hi) \div 2
              IN  DecodeRange(b, lo, mid) \o DecodeRange(b, mid + 1, hi)

\* bytes.decode('utf-8') of decodable bytes.
Decode(b) == DecodeRange(b, 1, Len(b))

----------------------------------------------------------------------------
(* JSON values of a request body, and Python's formatting of them *)

JStr(s)   == [t |-> "str",   s |-> s,  n |-> 0]
JInt(n)   == [t |-> "int",   s |-> "", n |-> n]
\* A float, held in tenths: JFloat(805) is 80.5.
JFloat(x) == [t |-> "float", s |-> "", n |-> x]
JNull     == [t |-> "null",  s |-> "", n |-> 0]

\* dict.get(key, default)
Get(data, key, default) == IF key \in DOMAIN data THEN data[key] ELSE default

Digit(d) == CharAt("0123456789", d + 1)

RECURSIVE NatStr(_)
NatStr(n) == IF n < 10 THEN Digit(n) ELSE NatStr(n \div 10) \o Digit(n % 10)

Abs(n) == IF n < 0 THEN -n ELSE n
Sign(n) == IF n < 0 THEN "-" ELSE ""

\* Tenths rounded to a whole number, halves to even (the float is exact at .5).
RoundHalfEven(x) ==
    LET q == x \div 10
        r == x % 10
    IN  IF r < 5 THEN q
        ELSE IF r > 5 THEN q + 1
        ELSE IF q % 2 = 0 THEN q ELSE q + 1

IsNumber(v) == v.t \in {"int", "float"}

\* format(v, '.0f') of a number.
FormatF0(v) ==
    IF v.t = "int" THEN Sign(v.n) \o NatStr(Abs(v.n))
    ELSE Sign(v.n) \o NatStr(RoundHalfEven(Abs(v.n)))

\* format(v, '.1f') of a number.
FormatF1(v) ==
    IF v.t = "int" THEN Sign(v.n) \o NatStr(Abs(v.n)) \o ".0"
    ELSE Sign(v.n) \o NatStr(Abs(v.n) \div 10) \o "." \o Digit(Abs(v.n) % 10)

\* format(v, '') = str(v)
PyStr(v) ==
    CASE v.t = "str"   -> v.s
      [] v.t = "int"   -> Sign(v.n) \o NatStr(Abs(v.n))
      [] v.t = "float" -> FormatF1(v)
      [] v.t = "null"  -> "None"

----------------------------------------------------------------------------
(* Command Formatter: the prompt each handler builds (bridge.py:70-130).    *)
(* A handler either builds a command or raises while formatting.            *)

Built(cmd) == [ok |-> TRUE,  cmd |-> cmd]
Raised     == [ok |-> FALSE, cmd |-> ""]

Chat(prompt) == "CHAT:" \o prompt

comment_on_vehicle(data) ==
    LET vehicle_name  == Get(data, "vehicle_name", JStr("Unknown"))
        vehicle_model == Get(data, "vehicle_model", JStr(""))
    IN  Built(Chat("I just spawned a " \o PyStr(vehicle_name) \o " "
                   \o PyStr(vehicle_model)
                   \o " in BeamNG! Make an excited comment about this vehicle."))

comment_on_crash(data) ==
    LET vehicle_name == Get(data, "vehicle_name", JStr("Unknown"))
        speed_before == Get(data, "speed_before", JInt(0))
        damage_level == Get(data, "damage_level", JInt(0))
    IN  IF IsNumber(speed_before) /\ IsNumber(damage_level)
        THEN Built(Chat("I just crashed my " \o PyStr(vehicle_name)
                        \o " at " \o FormatF0(speed_before)
                        \o " km/h! The damage is pretty bad ("
                        \o FormatF1(damage_level)
                        \o "). React dramatically!"))
        ELSE Raised

comment_on_dent(data) ==
    LET vehicle_name == Get(data, "vehicle_name", JStr("Unknown"))
    IN  Built(Chat("My " \o PyStr(vehicle_name)
                   \o " just got a big dent! Make a comment about the damage."))

comment_on_scratch(data) ==
    LET vehicle_name == Get(data, "vehicle_name", JStr("Unknown"))
    IN  Built(Chat("Just scratched the paint on my " \o PyStr(vehicle_name)
                   \o ". Make a light comment."))

comment_on_surroundings(data) ==
    LET vehicle_name == Get(data, "vehicle_name", JStr("Unknown"))
        location     == Get(data, "location", JStr("Unknown"))
        speed        == Get(data, "speed", JInt(0))
    IN  IF IsNumber(speed)
        THEN Built(Chat("I'm driving my " \o PyStr(vehicle_name)
                        \o " at " \o FormatF0(speed) \o " km/h in "
                        \o PyStr(location) \o ". Comment on the scene!"))
        ELSE Raised

EventRoutes == {"/vehicle", "/crash", "/dent", "/scratch", "/surroundings"}
Routes == {"/health"} \cup EventRoutes

\* The command the handler of a route hands to send_to_msagent.
Handler(rt, data) ==
    CASE rt = "/health"       -> Built("PING")
      [] rt = "/vehicle"      -> comment_on_vehicle(data)
      [] rt = "/crash"        -> comment_on_crash(data)
      [] rt = "/dent"         -> comment_on_dent(data)
      [] rt = "/scratch"      -> comment_on_scratch(data)
      [] rt = "/surroundings" -> comment_on_surroundings(data)

----------------------------------------------------------------------------
(* Request bodies the model draws from *)

\* {}: every field missing.
PayloadEmpty == [k \in {} |-> JNull]

\* The bodies test_bridge.py posts, as one object.
PayloadTest ==
    [k \in {"vehicle_name", "vehicle_model", "speed_before", "damage_level",
            "damage_amount", "location", "speed"} |->
        CASE k = "vehicle_name"  -> JStr("D-Series")
          [] k = "vehicle_model" -> JStr("2.0T")
          [] k = "speed_before"  -> JInt(80)
          [] k = "damage_level"  -> JFloat(5)
          [] k = "damage_amount" -> JFloat(2)
          [] k = "location"      -> JStr("Italy")
          [] k = "speed"         -> JInt(75)]

\* Text fields that carry a line break and a non-ASCII character, and
\* speeds that lie halfway between two whole numbers.
PayloadNewline ==
    [k \in {"vehicle_name", "location", "speed_before", "speed"} |->
        CASE k = "vehicle_name" -> JStr("a\nHIDE")
          [] k = "location"     -> JStr("Orl" \o EAcute \o "ans")
          [] k = "speed_before" -> JFloat(805)
          [] k = "speed"        -> JFloat(815)]

\* Numeric fields that are not numbers.
PayloadBadNumber ==
    [k \in {"vehicle_name", "speed_before", "damage_level", "speed"} |->
        CASE k = "vehicle_name" -> JStr("D-Series")
          [] k = "speed_before" -> JStr("fast")
          [] k = "damage_level" -> JFloat(5)
          [] k = "speed"        -> JNull]

Payloads == {PayloadEmpty, PayloadTest, PayloadNewline, PayloadBadNumber}

\* Request 1 is any request; the requests beside it are health probes.
Inputs(r) ==
    IF r = 1 THEN Routes \X Payloads ELSE {<<"/health", PayloadEmpty>>}

----------------------------------------------------------------------------
(* The peer's replies the model draws from, as the bytes it writes *)

ReplyPong    == Encode("PONG\n")
ReplyOk      == Encode("OK:ack\n")
ReplyError   == Encode("ERROR:PONG failed\n")
ReplyInvalid == <<"xFF">>
\* Longer than the read cap, all ASCII.
ReplyLong    == [i \in 1 .. ReadCap + 2 |-> "a"]
\* Longer than the read cap, with a two-byte character across the cap.
ReplySplit   == [i \in 1 .. ReadCap + 1 |->
                    IF i = ReadCap THEN "xC3" ELSE IF i = ReadCap + 1 THEN "xA9" ELSE "a"]

Replies == {ReplyPong, ReplyOk, ReplyError, ReplyInvalid, ReplyLong, ReplySplit}

----------------------------------------------------------------------------
(* State *)

VARIABLES
    pc,          \* per request: idle, connect, write, read, close, done
    route,       \* per request: the route it came in on
    command,     \* per call of send_to_msagent: its argument
    handle,      \* per call: the handle CreateFile returned (0: none)
    response,    \* per call: the decoded, stripped reply
    result,      \* per request: how its call of send_to_msagent ended
    http,        \* per request: the HTTP response sent
    peerUp,      \* whether MSAgent-AI is listening on the pipe
    openHandles, \* the handles the bridge process holds open
    inst         \* per handle: the pipe instance behind it

vars == <<pc, route, command, handle, response, result, http, peerUp, openHandles, inst>>

NoHandle == 0
Handles == 1 .. NumReq

\* A pipe instance: the request whose call opened it (0: nobody), the bytes
\* on their way to the peer, the bytes on their way to the bridge, and
\* whether the peer is gone.
FreshInstance == [owner |-> 0, recv |-> << >>, sent |-> << >>, broken |-> FALSE]

NotCalled       == [kind |-> "none",   value |-> ""]
Returned(value) == [kind |-> "return", value |-> value]
Propagated      == [kind |-> "raise",  value |-> ""]

NoResponse  == [code |-> 0,   body |-> [status |-> ""]]
ServerError == [code |-> 500, body |-> [status |-> "Internal Server Error"]]
OkResponse  == [code |-> 200, body |-> [status |-> "ok"]]

Init ==
    /\ pc = [r \in Requests |-> "idle"]
    /\ route = [r \in Requests |-> ""]
    /\ command = [r \in Requests |-> ""]
    /\ handle = [r \in Requests |-> NoHandle]
    /\ response = [r \in Requests |-> ""]
    /\ result = [r \in Requests |-> NotCalled]
    /\ http = [r \in Requests |-> NoResponse]
    /\ peerUp = FALSE
    /\ openHandles = {}
    /\ inst = [h \in Handles |-> FreshInstance]

----------------------------------------------------------------------------
(* send_to_msagent (bridge.py:24-56) and the handlers around it *)

\* A handle kept in one variable that every call shares.
SharedHandleVar(r) == 1

\* handle is a local variable of each call.
HandleVar(r) == r
HandleOf(r) == handle[HandleVar(r)]

\* bridge.py:39  (command + '\n').encode('utf-8')
Frame(cmd) == Encode(cmd \o NL)

\* A read with no cap.
ReadAll(buf) == buf

\* bridge.py:43  the bytes one ReadFile(handle, 1024) takes from the pipe
ReadBytes(buf) == Take(buf, ReadCap)

\* bridge.py:43-44: what one read of the bytes buf in the pipe gives the call:
\* how many bytes it takes, whether they decode, and the stripped text.
Received(buf) ==
    LET data == ReadBytes(buf)
    IN  [taken |-> Len(data),
         ok    |-> Decodable(data),
         text  |-> IF Decodable(data) THEN Strip(Decode(data)) ELSE ""]

\* Received of each reply of the model, computed once.
ReceivedOf == [reply \in Replies |-> Received(reply)]

ReadOutcome(buf) == IF buf \in Replies THEN ReceivedOf[buf] ELSE Received(buf)

ConnectError == "ERROR:Could not connect to MSAgent-AI. Is it running?"

PipeError   == [type |-> "pywintypes.error", msg |-> ""]
\* str(e) of a UnicodeDecodeError, without the byte and position it names
DecodeError == [type |-> "UnicodeDecodeError",
                msg |-> "'utf-8' codec can't decode byte"]

\* Only the first except clause, as in send_msagent_command of test-pipe.py.
ExceptPipeErrorOnly(e) ==
    IF e.type = "pywintypes.error"
    THEN Returned(ConnectError)
    ELSE Propagated

\* bridge.py:51-56: the except clauses.
Except(e) ==
    IF e.type = "pywintypes.error"
    THEN Returned(ConnectError)
    ELSE Returned("ERROR:" \o e.msg)

\* A health check that compares the response with "PONG".
RespondIfEqual(rt, value) ==
    IF rt = "/health"
    THEN [code |-> 200,
          body |-> [status |-> "ok",
                    msagent_connected |-> (value = "PONG"),
                    msagent_response |-> value]]
    ELSE OkResponse

\* bridge.py:61-68 and the return of every event handler.
Respond(rt, value) ==
    IF rt = "/health"
    THEN [code |-> 200,
          body |-> [status |-> "ok",
                    msagent_connected |-> Contains(value, "PONG"),
                    msagent_response |-> value]]
    ELSE OkResponse

\* send_to_msagent ends with outcome out and its locals go; the handler answers.
Finish(r, out) ==
    /\ result' = [result EXCEPT ![r] = out]
    /\ http' = [http EXCEPT ![r] =
                   IF out.kind = "return" THEN Respond(route[r], out.value)
                   ELSE ServerError]
    /\ pc' = [pc EXCEPT ![r] = "done"]
    /\ command' = [command EXCEPT ![r] = ""]
    /\ response' = [response EXCEPT ![r] = ""]
    /\ handle' = [handle EXCEPT ![HandleVar(r)] = NoHandle]

\* A request arrives; its handler reads the body and builds the command.
Request(r) ==
    /\ pc[r] = "idle"
    /\ \E in \in Inputs(r) :
          LET rt    == in[1]
              built == Handler(rt, in[2])
          IN  /\ route' = [route EXCEPT ![r] = rt]
              /\ IF built.ok
                 THEN /\ command' = [command EXCEPT ![r] = built.cmd]
                      /\ pc' = [pc EXCEPT ![r] = "connect"]
                      /\ http' = http
                 ELSE /\ http' = [http EXCEPT ![r] = ServerError]
                      /\ pc' = [pc EXCEPT ![r] = "done"]
                      /\ command' = command
    /\ UNCHANGED <<handle, response, result, peerUp, openHandles, inst>>

\* bridge.py:28-36
CreateFile(r) ==
    /\ pc[r] = "connect"
    /\ IF peerUp /\ Handles \ openHandles # {}
       THEN LET h == CHOOSE x \in Handles \ openHandles :
                        \A y \in Handles \ openHandles : x <= y
            IN  /\ handle' = [handle EXCEPT ![HandleVar(r)] = h]
                /\ openHandles' = openHandles \cup {h}
                /\ inst' = [inst EXCEPT ![h] = [FreshInstance EXCEPT !.owner = r]]
                /\ pc' = [pc EXCEPT ![r] = "write"]
                /\ UNCHANGED <<command, response, result, http>>
       ELSE /\ Finish(r, Except(PipeError))
            /\ UNCHANGED <<openHandles, inst>>
    /\ UNCHANGED <<route, peerUp>>

Usable(h) == h \in openHandles /\ ~inst[h].broken

\* bridge.py:39-40
WriteFile(r) ==
    /\ pc[r] = "write"
    /\ IF Usable(HandleOf(r))
       THEN /\ inst' = [inst EXCEPT ![HandleOf(r)].recv = @ \o Frame(command[r])]
            /\ pc' = [pc EXCEPT ![r] = "read"]
            \* command is only logged from here on
            /\ command' = [command EXCEPT ![r] = ""]
            /\ UNCHANGED <<handle, response, result, http>>
       ELSE /\ Finish(r, Except(PipeError))
            /\ inst' = inst
    /\ UNCHANGED <<route, peerUp, openHandles>>

\* bridge.py:43-44; blocks until the peer has written or the pipe breaks.
ReadFile(r) ==
    /\ pc[r] = "read"
    /\ IF Usable(HandleOf(r))
       THEN /\ inst[HandleOf(r)].sent # << >>
            /\ LET got == ReadOutcome(inst[HandleOf(r)].sent)
               IN  /\ inst' = [inst EXCEPT ![HandleOf(r)].sent = Drop(@, got.taken)]
                   /\ IF got.ok
                      THEN /\ response' = [response EXCEPT ![r] = got.text]
                           /\ pc' = [pc EXCEPT ![r] = "close"]
                           /\ UNCHANGED <<command, handle, result, http>>
                      ELSE Finish(r, Except(DecodeError))
       ELSE /\ Finish(r, Except(PipeError))
            /\ inst' = inst
    /\ UNCHANGED <<route, peerUp, openHandles>>

\* bridge.py:46-49
CloseHandle(r) ==
    /\ pc[r] = "close"
    /\ IF HandleOf(r) \in openHandles
       THEN /\ openHandles' = openHandles \ {HandleOf(r)}
            /\ inst' = [inst EXCEPT ![HandleOf(r)] = FreshInstance]
            /\ Finish(r, Returned(response[r]))
       ELSE /\ Finish(r, Except(PipeError))
            /\ UNCHANGED <<openHandles, inst>>
    /\ UNCHANGED <<route, peerUp>>

----------------------------------------------------------------------------
(* The peer, MSAgent-AI: a black box behind the pipe *)

PeerStart ==
    /\ ~peerUp
    /\ peerUp' = TRUE
    /\ UNCHANGED <<pc, route, command, handle, response, result, http, openHandles, inst>>

\* The peer exits: every connection it served breaks.
PeerStop ==
    /\ peerUp
    /\ peerUp' = FALSE
    /\ inst' = [h \in Handles |->
                   IF h \in openHandles
                   THEN [inst[h] EXCEPT !.recv = << >>, !.sent = << >>, !.broken = TRUE]
                   ELSE inst[h]]
    /\ UNCHANGED <<pc, route, command, handle, response, result, http, openHandles>>

\* The peer reads the request and writes one reply.
PeerReply(h) ==
    /\ Usable(h)
    /\ inst[h].recv # << >>
    /\ inst[h].sent = << >>
    /\ \E reply \in Replies :
          inst' = [inst EXCEPT ![h].recv = << >>, ![h].sent = reply]
    /\ UNCHANGED <<pc, route, command, handle, response, result, http, peerUp, openHandles>>

Next ==
    \/ \E r \in Requests : Request(r)
    \/ \E r \in Requests : CreateFile(r)
    \/ \E r \in Requests : WriteFile(r)
    \/ \E r \in Requests : ReadFile(r)
    \/ \E r \in Requests : CloseHandle(r)
    \/ PeerStart
    \/ PeerStop
    \/ \E h \in Handles : PeerReply(h)

Spec == Init /\ [][Next]_vars

\* Each thread runs on: a call that can take its next step takes it.  The
\* peer is under no such obligation.
SendStep(r) == CreateFile(r) \/ WriteFile(r) \/ ReadFile(r) \/ CloseHandle(r)

FairSpec == Spec /\ \A r \in Requests : WF_vars(SendStep(r))

----------------------------------------------------------------------------
(* Properties *)

\* The call of request r holds a connection.
InFlight(r) == pc[r] \in {"write", "read", "close"}

\* The handles request r's call opened that are still open.
OpenedBy(r) == {h \in openHandles : inst[h].owner = r}

DecodeErrorText == "ERROR:" \o DecodeError.msg

\* C1: send_to_msagent never lets an exception out: no call ends by raising,
\* every request answered 200 got a string back from it, and a call that finds
\* no peer listening when it connects returns a string beginning "ERROR:".
C1_NoExceptionEscapes ==
    /\ [](\A r \in Requests :
            /\ result[r].kind # "raise"
            /\ (pc[r] = "done" /\ http[r].code = 200) => result[r].kind = "return")
    /\ [][\A r \in Requests :
            (pc[r] = "connect" /\ ~peerUp /\ pc'[r] = "done")
               => /\ result'[r].kind = "return"
                  /\ StartsWith(result'[r].value, "ERROR:")]_vars

\* C1 witness: one call found no peer, another was sent a reply that is not
\* valid UTF-8, and both returned their error strings.
C1_Witness ==
    \E r1, r2 \in Requests :
        /\ result[r1] = Returned(ConnectError)
        /\ result[r2] = Returned(DecodeErrorText)

\* C2: by the time a call has returned, the handle it opened is closed.
C2_HandleClosedOnReturn ==
    \A r \in Requests : pc[r] = "done" => OpenedBy(r) = {}

\* C3: every call of send_to_msagent eventually returns.
C3_EveryCallReturns ==
    \A r \in Requests : (pc[r] = "connect") ~> (pc[r] = "done")

\* C4: GET /health sends exactly "PING" and answers 200 with status "ok", its
\* connected flag true exactly when the string send returned contains "PONG",
\* and its response field that string.
C4_Health ==
    \A r \in Requests :
        route[r] = "/health" =>
            /\ pc[r] \in {"connect", "write"} => command[r] = "PING"
            /\ \A h \in OpenedBy(r) :
                  inst[h].recv # << >> => inst[h].recv = <<"P", "I", "N", "G", NL>>
            /\ pc[r] = "done" =>
                  /\ result[r].kind = "return"
                  /\ http[r].code = 200
                  /\ http[r].body.status = "ok"
                  /\ http[r].body.msagent_connected = Contains(result[r].value, "PONG")
                  /\ http[r].body.msagent_response = result[r].value

\* C4 witness: one health check answered connected on a reply that contains
\* "PONG" without being it, another answered not connected with no peer.
C4_Witness ==
    \E r1, r2 \in Requests :
        /\ route[r1] = "/health" /\ pc[r1] = "done"
        /\ result[r1] = Returned("ERROR:PONG failed")
        /\ http[r1].body.msagent_connected
        /\ route[r2] = "/health" /\ pc[r2] = "done"
        /\ result[r2] = Returned(ConnectError)
        /\ ~http[r2].body.msagent_connected

\* C5: every request on an event route ends with one command handed to send
\* and the answer 200 {status: "ok"}.
C5_EventRouteAlwaysOk ==
    \A r \in Requests :
        (route[r] \in EventRoutes /\ pc[r] = "done")
            => /\ result[r].kind = "return"
               /\ http[r] = OkResponse

\* C6: the Formatter never raises: no request is answered 500.
C6_FormatterNeverRaises ==
    \A r \in Requests : http[r].code # 500

\* C7: every frame written to the peer is one line: its only newline is its
\* last byte.
C7_OneLinePerFrame ==
    \A h \in openHandles :
        LET f == inst[h].recv
        IN  f # << >> => \A i \in 1 .. Len(f) : (f[i] = NL) <=> (i = Len(f))

\* C8: the response a call decodes, and the string it returns, come from at
\* most ReadCap bytes, and a reply longer than that makes no call raise.
C8_ReadCapped ==
    \A r \in Requests :
        /\ Len(response[r]) <= ReadCap
        /\ Len(result[r].value) <= ReadCap
        /\ result[r].kind # "raise"

\* C8 witness: a call has read a reply longer than the cap: it holds ReadCap
\* characters and the rest of the reply is still in the pipe.
C8_Witness ==
    \E r \in Requests :
        /\ pc[r] = "close"
        /\ Len(response[r]) = ReadCap
        /\ \E h \in OpenedBy(r) : inst[h].sent # << >>

\* C9: a call that got past the connect never returns the could-not-connect
\* sentinel.
C9_SentinelOnlyOnConnectFailure ==
    [][\A r \in Requests :
          (InFlight(r) /\ pc'[r] = "done") => result'[r] # Returned(ConnectError)]_vars

\* C10: each call owns its connection: the handle a call uses is open and was
\* opened by that call, and the response a call gets is read from the
\* connection it opened, which is the only connection that read touches.
C10_OwnConnection ==
    /\ [](\A r \in Requests :
            InFlight(r) => /\ HandleOf(r) \in openHandles
                           /\ inst[HandleOf(r)].owner = r)
    /\ [][\A r \in Requests :
            (pc[r] = "read" /\ pc'[r] = "close")
               => \E h \in OpenedBy(r) :
                     /\ inst[h].sent # << >>
                     /\ response'[r] = ReadOutcome(inst[h].sent).text
                     /\ \A g \in Handles \ {h} : inst'[g] = inst[g]]_vars

\* C10 witness: two calls hold a connection at once, one waiting for its
\* reply, the other having read its own.
C10_Witness ==
    \E r1, r2 \in Requests :
        /\ pc[r1] = "read" /\ pc[r2] = "close"
        /\ HandleOf(r1) # HandleOf(r2)
        /\ response[r2] = "PONG"

====
